---- MODULE Spec2Model ----
(***************************************************************************)
(* PyList (src/main.py): a to-do list held in a dict, a foreground command *)
(* loop that mutates it and a daemon thread that alerts on due tasks and   *)
(* removes them.  Time is counted in whole seconds.                        *)
(*                                                                         *)
(* The dict is modelled by its entry array: one slot per inserted key, in  *)
(* insertion order, a deleted key leaving a dummy slot behind.  That is    *)
(* what decides what an iterator over the dict does when the dict changes  *)
(* under it.                                                               *)
(***************************************************************************)
EXTENDS Integers, Sequences, FiniteSets, TLC

(* ------------------------------ bounds --------------------------------- *)
\* the wall clock runs from 0 to MaxTime
MaxTime == 1
\* number of task records add may create in one run
MaxTasks == 2

\* largest amount of days, hours, minutes and seconds of the durations
\* that are formatted, next to the amounts just below a carry
MaxAmount == 2

\* largest number of pieces a duration text that is parsed is made of
MaxPieces == 3

Names == {"a", "b"}
Descriptions == {"wash", "read"}
\* the description typed in the add commands of the thread model
Typed == {"wash"}
Ids == 1..MaxTasks

(* --------------------------- duration text ----------------------------- *)
DigitChars == {"0", "1", "2", "3", "4", "5", "6", "7", "8", "9"}

DigitVal(c) ==
  CASE c = "0" -> 0 [] c = "1" -> 1 [] c = "2" -> 2 [] c = "3" -> 3
    [] c = "4" -> 4 [] c = "5" -> 5 [] c = "6" -> 6 [] c = "7" -> 7
    [] c = "8" -> 8 [] c = "9" -> 9

\* time_units of parse_time: unit letter -> seconds of one unit
time_units == [d |-> 86400, h |-> 3600, m |-> 60, s |-> 1]

UnitChars == DOMAIN time_units

\* int(amount) of the digit run s[i..j-1]
RECURSIVE IntOf(_, _, _)
IntOf(s, i, j) ==
  IF j <= i THEN 0 ELSE IntOf(s, i, j - 1) * 10 + DigitVal(s[j - 1])

\* first index >= i of s that holds no digit (Len(s)+1 if there is none)
RECURSIVE RunEnd(_, _)
RunEnd(s, i) ==
  IF i > Len(s) \/ s[i] \notin DigitChars THEN i ELSE RunEnd(s, i + 1)

\* a scan that is over with the first token it finds
RECURSIVE FindAll_FirstOnly(_, _, _)
FindAll_FirstOnly(s, i, kwargs) ==
  IF i > Len(s) THEN kwargs
  ELSE IF s[i] \notin DigitChars THEN FindAll_FirstOnly(s, i + 1, kwargs)
  ELSE LET j == RunEnd(s, i) IN
       IF j <= Len(s) /\ s[j] \in UnitChars
         THEN [kwargs EXCEPT ![s[j]] = IntOf(s, i, j)]
         ELSE FindAll_FirstOnly(s, j, kwargs)

\* the loop over time_pattern.findall(time_str): kwargs after scanning s
\* from index i on.  A key of kwargs is overwritten by a later token of the
\* same unit.
RECURSIVE FindAll(_, _, _)
FindAll(s, i, kwargs) ==
  IF i > Len(s) THEN kwargs
  ELSE IF s[i] \notin DigitChars THEN FindAll(s, i + 1, kwargs)
  ELSE LET j == RunEnd(s, i) IN
       IF j <= Len(s) /\ s[j] \in UnitChars
         THEN FindAll(s, j + 1, [kwargs EXCEPT ![s[j]] = IntOf(s, i, j)])
         ELSE FindAll(s, j, kwargs)

NoKwargs == [u \in UnitChars |-> 0]

\* the largest number of days a timedelta holds
MaxDays == 999999999
\* the number of the last day, 9999-12-31, a datetime can be
MaxOrdinal == 3652059

\* how many of a unit make a day
PerDay(u) == time_units["d"] \div time_units[u]

\* timedelta(**kwargs): the value, kept as whole days and the seconds of
\* the day begun, or OverflowError when it is more than MaxDays days
timedelta(kwargs) ==
  LET rest == (kwargs["h"] % PerDay("h")) * time_units["h"]
                + (kwargs["m"] % PerDay("m")) * time_units["m"]
                + (kwargs["s"] % PerDay("s")) * time_units["s"]
      days == kwargs["d"] + kwargs["h"] \div PerDay("h")
                + kwargs["m"] \div PerDay("m") + kwargs["s"] \div PerDay("s")
                + rest \div time_units["d"]
  IN IF days > MaxDays
       THEN [raised |-> "OverflowError", days |-> 0, seconds |-> 0]
       ELSE [raised |-> "none", days |-> days,
             seconds |-> rest % time_units["d"]]

parse_time(time_str) == timedelta(FindAll(time_str, 1, NoKwargs))

\* timedelta.total_seconds()
total_seconds(delta) == delta.days * time_units["d"] + delta.seconds

\* a sum that leaves out the time it is to count from
Plus_OnlyDelta(t, delta) ==
  IF delta.days >= MaxOrdinal
    THEN [raised |-> "OverflowError", value |-> 0]
    ELSE [raised |-> "none", value |-> total_seconds(delta)]

\* datetime + timedelta for the time t: OverflowError when the sum is past
\* the last day of the calendar, which this many days are on any day
Plus(t, delta) ==
  IF delta.days >= MaxOrdinal
    THEN [raised |-> "OverflowError", value |-> 0]
    ELSE [raised |-> "none", value |-> t + total_seconds(delta)]

\* the duration texts the command loop is fed in the thread model
TimeStrs == {<<"0", "s">>, <<"1", "s">>}

\* texts of durations at the end of what a datetime and a timedelta hold:
\* 3652059d and 1000000000d
LongStrs == {<<"3", "6", "5", "2", "0", "5", "9", "d">>,
             <<"1", "0", "0", "0", "0", "0", "0", "0", "0", "0", "d">>}

\* the duration texts of the direct calls
CallStrs == TimeStrs \cup LongStrs

(* ------------------------- duration to phrase -------------------------- *)
\* the timedelta of n seconds, n of either sign: days and seconds of the day
FromSeconds(n) ==
  [raised |-> "none", days |-> n \div time_units["d"],
   seconds |-> n % time_units["d"]]

\* Python divmod(a, b) for b > 0
divmod(a, b) == <<a \div b, a % b>>

\* a decomposition that takes the hours from the total, not from the rest
Decompose_NoRest(total_secs) ==
  LET d == divmod(total_secs, 86400)
      h == divmod(total_secs, 3600)
      m == divmod(h[2], 60)
  IN [days |-> d[1], hours |-> h[1], minutes |-> m[1], seconds |-> m[2]]

\* the three divmod of convert_timedelta
Decompose(total_secs) ==
  LET d == divmod(total_secs, 86400)
      h == divmod(d[2], 3600)
      m == divmod(h[2], 60)
  IN [days |-> d[1], hours |-> h[1], minutes |-> m[1], seconds |-> m[2]]

\* a part that is never put in the plural
Part_NoPlural(n, unit) == ToString(n) \o " " \o unit

\* f"{n} unit{'s' if n > 1 else ''}"
Part(n, unit) == ToString(n) \o " " \o unit \o (IF n > 1 THEN "s" ELSE "")

\* the parts list of convert_timedelta
Parts(c) ==
  (IF c.days > 0 THEN <<Part(c.days, "day")>> ELSE <<>>)
    \o (IF c.hours > 0 THEN <<Part(c.hours, "hour")>> ELSE <<>>)
    \o (IF c.minutes > 0 THEN <<Part(c.minutes, "minute")>> ELSE <<>>)
    \o (IF c.seconds > 0 THEN <<Part(c.seconds, "second")>> ELSE <<>>)

\* sep.join(parts)
RECURSIVE join(_, _)
join(sep, parts) ==
  IF parts = <<>> THEN ""
  ELSE IF Len(parts) = 1 THEN parts[1]
  ELSE parts[1] \o sep \o join(sep, Tail(parts))

\* a combination that joins just two parts by a plain "and"
Combine_TwoPlain(parts) ==
  IF Len(parts) = 2
    THEN parts[1] \o " and " \o parts[2]
  ELSE IF Len(parts) > 1
    THEN join(", ", SubSeq(parts, 1, Len(parts) - 1)) \o ", and "
           \o parts[Len(parts)]
  ELSE IF parts # <<>> THEN parts[1]
  ELSE "0 seconds"

\* "Combine parts with commas and 'and'"
Combine(parts) ==
  IF Len(parts) > 1
    THEN join(", ", SubSeq(parts, 1, Len(parts) - 1)) \o ", and "
           \o parts[Len(parts)]
  ELSE IF parts # <<>> THEN parts[1]
  ELSE "0 seconds"

convert_timedelta(delta) == Combine(Parts(Decompose(total_seconds(delta))))

\* amounts of a unit of which wrap make the next unit
Amounts(wrap) == 0..MaxAmount \cup {30, wrap - 1}

\* the durations that are formatted: sums of amounts of each unit, and the
\* time left of a task that is a few seconds to more than a day overdue
Deltas ==
  {FromSeconds(d * 86400 + h * 3600 + m * 60 + sec) :
     d \in 0..MaxAmount, h \in Amounts(24), m \in Amounts(60),
     sec \in Amounts(60)}
  \cup {FromSeconds(0 - n) : n \in {1, 5, 90, 86400, 86401}}

(* ------------------------------ the dict ------------------------------- *)
NoName == "-"
NoDesc == "-"
\* a slot whose key was deleted
Dummy == [name |-> NoName, id |-> 0, description |-> NoDesc,
          start |-> 0, deadline |-> 0]

\* {"description": ..., "start": ..., "deadline": ...} stored under name;
\* id tells the records of one run apart
Task(name, id, description, start, deadline) ==
  [name |-> name, id |-> id, description |-> description,
   start |-> start, deadline |-> deadline]

Live(l) == {k \in 1..Len(l) : l[k].id # 0}

\* len(self._list)
Used(l) == Cardinality(Live(l))

\* name in self._list
Has(l, name) == \E k \in Live(l) : l[k].name = name

SlotOf(l, name) == CHOOSE k \in Live(l) : l[k].name = name

\* self._list[name], for a name that is present
GetItem(l, name) == l[SlotOf(l, name)]

\* self._list[name] = task
SetItem(l, name, task) ==
  IF Has(l, name) THEN [l EXCEPT ![SlotOf(l, name)] = task]
  ELSE Append(l, task)

\* self._list.pop(name, None)
Pop(l, name) ==
  IF Has(l, name) THEN [l EXCEPT ![SlotOf(l, name)] = Dummy] ELSE l

\* the ids of the records in the dict
IdsIn(l) == {l[k].id : k \in Live(l)}

\* first live slot at or after position p (Len(l)+1 if there is none)
RECURSIVE NextLive(_, _)
NextLive(l, p) ==
  IF p > Len(l) \/ l[p].id # 0 THEN p ELSE NextLive(l, p + 1)

(* ------------------------------ the state ------------------------------ *)
VARIABLES
  list,      \* TodoList._list: the entry array of the dict
  now,       \* the wall clock, what datetime.now() returns
  nextId,    \* id of the next record add creates
  fg,        \* the main thread: position in main() and its locals
  mon,       \* the alert thread: position in alert_due_tasks and its locals
  notified,  \* per record id: how often notification.notify was called for it
  alerted,   \* ids of the records an alert was raised for
  removed,   \* ids of the records a foreground remove deleted
  call       \* the last direct method call (sequential use of TodoList)

vars == <<list, now, nextId, fg, mon, notified, alerted, removed, call>>

\* main() waiting in input("# ")
FgInput == [pc |-> "input", name |-> NoName, description |-> NoDesc,
            time_str |-> <<>>, now |-> 0, task |-> 0, raised |-> "none"]

\* alert_thread outside of alert_due_tasks
MonIdle == [pc |-> "sleep", now |-> 0, pos |-> 0, used |-> 0, len |-> 0,
            due_tasks |-> <<>>, due_ids |-> <<>>, i |-> 0, name |-> NoName,
            description |-> NoDesc, start |-> 0, deadline |-> 0,
            ids |-> {}, raised |-> "none"]

NoCall == [op |-> "none", name |-> NoName, args |-> <<>>, raised |-> "none",
           ret |-> <<>>]

\* main() has started the alert thread and reads its first command
Init ==
  /\ list = <<>>
  /\ now = 0
  /\ nextId = 1
  /\ fg = FgInput
  /\ mon = [MonIdle EXCEPT !.pc = "check"]
  /\ notified = [id \in Ids |-> 0]
  /\ alerted = {}
  /\ removed = {}
  /\ call = NoCall

\* the process lives until an exception leaves main()
Running == fg.pc # "crashed"

\* an exception nobody catches: main() ends, and with it the process
FgRaise(exc) == [FgInput EXCEPT !.pc = "crashed", !.raised = exc]

\* an exception nobody catches: alert_thread ends and its frames are gone,
\* main() goes on; name and ids keep what the thread was working on
MonRaise(exc) ==
  [MonIdle EXCEPT !.pc = "dead", !.raised = exc, !.name = mon.name,
                  !.ids = mon.ids]

(* ------------------------------ the clock ------------------------------ *)
Tick ==
  /\ Running
  /\ now < MaxTime
  /\ now' = now + 1
  /\ UNCHANGED <<list, nextId, fg, mon, notified, alerted, removed, call>>

(* ---------------------------- the main thread -------------------------- *)
\* "add <name> <time> <description>": todo.add up to now = datetime.now()
FgAdd(name, description, time_str) ==
  /\ fg.pc = "input"
  /\ nextId <= MaxTasks
  /\ fg' = [fg EXCEPT !.pc = "add_set", !.name = name,
                      !.description = description, !.time_str = time_str,
                      !.now = now]
  /\ UNCHANGED <<list, now, nextId, mon, notified, alerted, removed, call>>

\* delta = parse_time(time_str); self._list[name] = {...}
FgAddSet ==
  /\ fg.pc = "add_set"
  /\ LET delta == parse_time(fg.time_str)
         deadline == Plus(fg.now, delta)
     IN IF delta.raised # "none"
          THEN fg' = FgRaise(delta.raised) /\ UNCHANGED <<list, nextId>>
        ELSE IF deadline.raised # "none"
          THEN fg' = FgRaise(deadline.raised) /\ UNCHANGED <<list, nextId>>
        ELSE /\ list' = SetItem(list, fg.name,
                          Task(fg.name, nextId, fg.description, fg.now,
                               deadline.value))
             /\ nextId' = nextId + 1
             /\ fg' = FgInput
  /\ UNCHANGED <<now, mon, notified, alerted, removed, call>>

\* "remove <name>": todo.remove up to the test name in self._list
FgRemove(name) ==
  /\ fg.pc = "input"
  /\ fg' = IF Has(list, name)
             THEN [fg EXCEPT !.pc = "remove_pop", !.name = name]
             ELSE FgRaise("ValueError")
  /\ UNCHANGED <<list, now, nextId, mon, notified, alerted, removed, call>>

\* self._list.pop(name, None)
FgRemovePop ==
  /\ fg.pc = "remove_pop"
  /\ list' = Pop(list, fg.name)
  /\ removed' = IF Has(list, fg.name)
                  THEN removed \cup {GetItem(list, fg.name).id}
                  ELSE removed
  /\ fg' = FgInput
  /\ UNCHANGED <<now, nextId, mon, notified, alerted, call>>

\* "snooze <name> <time>": todo.snooze up to the test name in self._list.
\* The deadline a task may be moved to is capped at MaxTime + 1.
FgSnooze(name, time_str) ==
  /\ fg.pc = "input"
  /\ Has(list, name) =>
       Plus(GetItem(list, name).deadline, parse_time(time_str)).value
         <= MaxTime + 1
  /\ fg' = IF Has(list, name)
             THEN [fg EXCEPT !.pc = "snooze_get", !.name = name,
                             !.time_str = time_str]
             ELSE FgRaise("ValueError")
  /\ UNCHANGED <<list, now, nextId, mon, notified, alerted, removed, call>>

\* delta = parse_time(time_str); the left side self._list[name] of +=
FgSnoozeGet ==
  /\ fg.pc = "snooze_get"
  /\ fg' = IF parse_time(fg.time_str).raised # "none"
             THEN FgRaise(parse_time(fg.time_str).raised)
           ELSE IF Has(list, fg.name)
             THEN [fg EXCEPT !.pc = "snooze_set",
                             !.task = GetItem(list, fg.name).id]
             ELSE FgRaise("KeyError")
  /\ UNCHANGED <<list, now, nextId, mon, notified, alerted, removed, call>>

\* task["deadline"] += delta, on the record FgSnoozeGet fetched; a record
\* that has left the dict meanwhile is written all the same
FgSnoozeSet ==
  /\ fg.pc = "snooze_set"
  /\ LET delta == parse_time(fg.time_str) IN
     IF \E k \in 1..Len(list) :
          list[k].id = fg.task /\ Plus(list[k].deadline, delta).raised # "none"
       THEN fg' = FgRaise("OverflowError") /\ UNCHANGED list
       ELSE /\ list' = [k \in 1..Len(list) |->
                         IF list[k].id = fg.task
                           THEN [list[k] EXCEPT
                                   !.deadline = Plus(@, delta).value]
                           ELSE list[k]]
            /\ fg' = FgInput
  /\ UNCHANGED <<now, nextId, mon, notified, alerted, removed, call>>

Foreground ==
  \/ \E name \in Names, description \in Typed, time_str \in TimeStrs :
       FgAdd(name, description, time_str)
  \/ FgAddSet
  \/ \E name \in Names : FgRemove(name)
  \/ FgRemovePop
  \/ \E name \in Names, time_str \in TimeStrs : FgSnooze(name, time_str)
  \/ FgSnoozeGet
  \/ FgSnoozeSet

(* ---------------------------- the alert thread ------------------------- *)
\* check_due_tasks: now = datetime.now()
MonCheck ==
  /\ mon.pc = "check"
  /\ Running
  /\ mon' = [mon EXCEPT !.pc = "iter", !.now = now]
  /\ UNCHANGED <<list, now, nextId, fg, notified, alerted, removed, call>>

\* check_due_tasks: the iterator of self._list.items() is created; it
\* remembers the size of the dict and counts the items it may still yield
MonIter ==
  /\ mon.pc = "iter"
  /\ Running
  /\ mon' = [mon EXCEPT !.pc = "scan", !.pos = 1, !.used = Used(list),
                        !.len = Used(list)]
  /\ UNCHANGED <<list, now, nextId, fg, notified, alerted, removed, call>>

\* the for loop of alert_due_tasks takes the name at index i of due_tasks,
\* or ends when there is none; then alert_thread sleeps.  The locals of
\* check_due_tasks and of the iteration before are gone.
ForName(m, i) ==
  IF i > Len(m.due_tasks)
    THEN MonIdle
    ELSE [MonIdle EXCEPT !.pc = "description_in", !.i = i,
                         !.due_tasks = m.due_tasks, !.due_ids = m.due_ids,
                         !.name = m.due_tasks[i]]

\* check_due_tasks: one step of the comprehension over the iterator
MonScan ==
  /\ mon.pc = "scan"
  /\ Running
  /\ LET p == NextLive(list, mon.pos) IN
     mon' = IF Used(list) # mon.used
              THEN MonRaise("RuntimeError")    \* changed size during iteration
            ELSE IF p > Len(list)
              THEN ForName(mon, 1)             \* exhausted: return due_tasks
            ELSE IF mon.len = 0
              THEN MonRaise("RuntimeError")    \* keys changed during iteration
            ELSE IF list[p].deadline <= mon.now
              THEN [mon EXCEPT !.pos = p + 1, !.len = @ - 1,
                               !.due_tasks = Append(@, list[p].name),
                               !.due_ids = Append(@, list[p].id)]
            ELSE [mon EXCEPT !.pos = p + 1, !.len = @ - 1]
  /\ UNCHANGED <<list, now, nextId, fg, notified, alerted, removed, call>>

\* the test name in self._list of get_description, get_start, get_deadline
\* and remove, as alert_due_tasks calls them
MonIn(at, next) ==
  /\ mon.pc = at
  /\ Running
  /\ mon' = IF Has(list, mon.name)
              THEN [mon EXCEPT !.pc = next]
              ELSE MonRaise("ValueError")
  /\ UNCHANGED <<list, now, nextId, fg, notified, alerted, removed, call>>

\* self._list[name].get(field) of a getter
MonGet(at, field, next) ==
  /\ mon.pc = at
  /\ Running
  /\ mon' = IF Has(list, mon.name)
              THEN [mon EXCEPT !.pc = next,
                               ![field] = GetItem(list, mon.name)[field],
                               !.ids = @ \cup {GetItem(list, mon.name).id}]
              ELSE MonRaise("KeyError")
  /\ UNCHANGED <<list, now, nextId, fg, notified, alerted, removed, call>>

MonDescriptionIn == MonIn("description_in", "description_get")
MonDescriptionGet == MonGet("description_get", "description", "start_in")
MonStartIn == MonIn("start_in", "start_get")
MonStartGet == MonGet("start_get", "start", "deadline_in")
MonDeadlineIn == MonIn("deadline_in", "deadline_get")
MonDeadlineGet == MonGet("deadline_get", "deadline", "notify")

\* notification.notify(...) and the prints after it; the sink may raise
MonNotify(ok) ==
  /\ mon.pc = "notify"
  /\ Running
  /\ notified' = [id \in Ids |->
                    IF id \in mon.ids THEN notified[id] + 1 ELSE notified[id]]
  /\ alerted' = IF ok THEN alerted \cup mon.ids ELSE alerted
  /\ mon' = IF ok THEN [mon EXCEPT !.pc = "remove_in"]
                  ELSE MonRaise("NotifyError")
  /\ UNCHANGED <<list, now, nextId, fg, removed, call>>

MonRemoveIn == MonIn("remove_in", "remove_pop")

\* alert_due_tasks going on to the next due name with the alerted task left
\* in the dict
MonRemovePop_Keep ==
  /\ mon.pc = "remove_pop"
  /\ Running
  /\ mon' = ForName(mon, mon.i + 1)
  /\ UNCHANGED <<list, now, nextId, fg, notified, alerted, removed, call>>

\* self.remove(name): self._list.pop(name, None), then the next due name
MonRemovePop ==
  /\ mon.pc = "remove_pop"
  /\ Running
  /\ list' = Pop(list, mon.name)
  /\ mon' = ForName(mon, mon.i + 1)
  /\ UNCHANGED <<now, nextId, fg, notified, alerted, removed, call>>

\* alert_thread: time.sleep(1), then the next alert_due_tasks; a second
\* passes, up to the last second MaxTime of the clock
MonSleep ==
  /\ mon.pc = "sleep"
  /\ Running
  /\ now' = IF now < MaxTime THEN now + 1 ELSE now
  /\ mon' = [mon EXCEPT !.pc = "check"]
  /\ UNCHANGED <<list, nextId, fg, notified, alerted, removed, call>>

Monitor ==
  \/ MonCheck
  \/ MonIter
  \/ MonScan
  \/ MonDescriptionIn
  \/ MonDescriptionGet
  \/ MonStartIn
  \/ MonStartGet
  \/ MonDeadlineIn
  \/ MonDeadlineGet
  \/ \E ok \in BOOLEAN : MonNotify(ok)
  \/ MonRemoveIn
  \/ MonRemovePop
  \/ MonSleep

Next == Tick \/ Foreground \/ Monitor

Spec == Init /\ [][Next]_vars

(* ------------------- TodoList used from a single thread ---------------- *)
\* What one call of a method does to the dict when nothing runs between its
\* statements: the dict afterwards, the exception raised, the value returned.
Returns(l, ret) == [list |-> l, raised |-> "none", ret |-> ret]
Raises(l, exc) == [list |-> l, raised |-> exc, ret |-> <<>>]
NotFound(l) == Raises(l, "ValueError")

\* TodoList.add, called at time t; id is the id of the new record
add(l, name, description, time_str, t, id) ==
  LET delta == parse_time(time_str)
      deadline == Plus(t, delta)
  IN IF delta.raised # "none" THEN Raises(l, delta.raised)
     ELSE IF deadline.raised # "none" THEN Raises(l, deadline.raised)
     ELSE Returns(SetItem(l, name,
                    Task(name, id, description, t, deadline.value)), <<>>)

\* remove that takes an absent name for done
remove_Silent(l, name) == Returns(Pop(l, name), <<>>)

remove(l, name) ==
  IF Has(l, name) THEN Returns(Pop(l, name), <<>>) ELSE NotFound(l)

\* snooze that counts the new deadline from the start of the task
snooze_FromStart(l, name, time_str) ==
  IF Has(l, name)
    THEN LET delta == parse_time(time_str)
             deadline == Plus(GetItem(l, name).start, delta)
         IN IF delta.raised # "none" THEN Raises(l, delta.raised)
            ELSE IF deadline.raised # "none" THEN Raises(l, deadline.raised)
            ELSE Returns([l EXCEPT ![SlotOf(l, name)].deadline =
                                     deadline.value], <<>>)
    ELSE NotFound(l)

snooze(l, name, time_str) ==
  IF Has(l, name)
    THEN LET delta == parse_time(time_str)
             deadline == Plus(GetItem(l, name).deadline, delta)
         IN IF delta.raised # "none" THEN Raises(l, delta.raised)
            ELSE IF deadline.raised # "none" THEN Raises(l, deadline.raised)
            ELSE Returns([l EXCEPT ![SlotOf(l, name)].deadline =
                                     deadline.value], <<>>)
    ELSE NotFound(l)

get_task(l, name) ==
  IF Has(l, name) THEN Returns(l, <<GetItem(l, name)>>) ELSE NotFound(l)

get_description(l, name) ==
  IF Has(l, name) THEN Returns(l, <<GetItem(l, name).description>>)
  ELSE NotFound(l)

get_deadline(l, name) ==
  IF Has(l, name) THEN Returns(l, <<GetItem(l, name).deadline>>)
  ELSE NotFound(l)

get_start(l, name) ==
  IF Has(l, name) THEN Returns(l, <<GetItem(l, name).start>>)
  ELSE NotFound(l)

\* TodoList.time_left, called at time t
time_left(l, name, t) ==
  IF Has(l, name) THEN Returns(l, <<GetItem(l, name).deadline - t>>)
  ELSE NotFound(l)

\* datetime.strftime of a time of whole seconds
format_time(t) == ToString(t)

\* str.capitalize of a task name
capitalize(name) == CASE name = "a" -> "A" [] name = "b" -> "B"

\* the items in the order the dict holds them
sorted_AsStored(l) ==
  LET live == Live(l)
      rank(k) == Cardinality({j \in live : j < k})
  IN [i \in 1..Cardinality(live) |-> l[CHOOSE k \in live : rank(k) = i - 1]]

\* sorted(self._list.items(), key=deadline): ascending, and stable
sorted(l) ==
  LET live == Live(l)
      rank(k) == Cardinality({j \in live :
                    \/ l[j].deadline < l[k].deadline
                    \/ l[j].deadline = l[k].deadline /\ j < k})
  IN [i \in 1..Cardinality(live) |-> l[CHOOSE k \in live : rank(k) = i - 1]]

\* TodoList.print, called at time t: what it writes
print(l, t) ==
  LET sorted_tasks == sorted(l)
  IN IF Live(l) = {} THEN Returns(l, <<[empty |-> TRUE, tasks |-> <<>>]>>)
     ELSE Returns(l, <<[empty |-> FALSE,
            tasks |-> [i \in 1..Len(sorted_tasks) |->
              [name |-> capitalize(sorted_tasks[i].name),
               description |-> sorted_tasks[i].description,
               start |-> format_time(sorted_tasks[i].start),
               deadline |-> format_time(sorted_tasks[i].deadline),
               time_left |-> convert_timedelta(FromSeconds(
                  time_left(l, sorted_tasks[i].name, t).ret[1]))]]]>>)

\* the call op(name, args) has been made and has come back with result r
Called(op, name, args, r) ==
  /\ list' = r.list
  /\ call' = [op |-> op, name |-> name, args |-> args, raised |-> r.raised,
              ret |-> r.ret]
  /\ UNCHANGED <<now, fg, mon, notified, alerted, removed>>

CallAdd(name, description, time_str) ==
  /\ nextId <= MaxTasks
  /\ nextId' = IF add(list, name, description, time_str, now, nextId).raised
                    = "none"
                THEN nextId + 1 ELSE nextId
  /\ Called("add", name, <<description, time_str>>,
            add(list, name, description, time_str, now, nextId))

CallRemove(name) ==
  /\ UNCHANGED nextId
  /\ Called("remove", name, <<>>, remove(list, name))

CallSnooze(name, time_str) ==
  /\ Has(list, name) =>
       Plus(GetItem(list, name).deadline, parse_time(time_str)).value
         <= MaxTime + 1
  /\ UNCHANGED nextId
  /\ Called("snooze", name, <<time_str>>, snooze(list, name, time_str))

CallGetTask(name) ==
  /\ UNCHANGED nextId
  /\ Called("get_task", name, <<>>, get_task(list, name))

CallGetDescription(name) ==
  /\ UNCHANGED nextId
  /\ Called("get_description", name, <<>>, get_description(list, name))

CallGetDeadline(name) ==
  /\ UNCHANGED nextId
  /\ Called("get_deadline", name, <<>>, get_deadline(list, name))

CallGetStart(name) ==
  /\ UNCHANGED nextId
  /\ Called("get_start", name, <<>>, get_start(list, name))

CallTimeLeft(name) ==
  /\ UNCHANGED nextId
  /\ Called("time_left", name, <<>>, time_left(list, name, now))

CallPrint ==
  /\ UNCHANGED nextId
  /\ Called("print", NoName, <<>>, print(list, now))

NextCall ==
  \/ Tick
  \/ CallPrint
  \/ \E name \in Names, description \in Descriptions, time_str \in CallStrs :
       CallAdd(name, description, time_str)
  \/ \E name \in Names : CallRemove(name)
  \/ \E name \in Names, time_str \in CallStrs : CallSnooze(name, time_str)
  \/ \E name \in Names : CallGetTask(name)
  \/ \E name \in Names : CallGetDescription(name)
  \/ \E name \in Names : CallGetDeadline(name)
  \/ \E name \in Names : CallGetStart(name)
  \/ \E name \in Names : CallTimeLeft(name)

\* a TodoList driven by direct calls, no alert thread and no command loop
SpecCalls == Init /\ [][NextCall]_vars

(* --------------------------- the two functions ------------------------- *)
\* the call op(arg) has been made and has not come back
Pending(op, arg) ==
  [op |-> op, name |-> NoName, args |-> <<arg>>, raised |-> "none",
   ret |-> <<>>]

IsPending(op) == call.op = op /\ call.raised = "none" /\ call.ret = <<>>

\* <amount><unit> tokens a duration text is made of
Tokens ==
  {<<"1", "d">>, <<"2", "h">>, <<"3", "0", "m">>, <<"5", "s">>, <<"1", "h">>}

\* what else a duration text is made of: a blank, a letter that is no unit,
\* a digit and a unit on their own
Fillers == {<<" ">>, <<"x">>, <<"7">>, <<"h">>}

\* the pieces put one after the other
RECURSIVE Concat(_)
Concat(pieces) ==
  IF pieces = <<>> THEN <<>> ELSE Head(pieces) \o Concat(Tail(pieces))

\* the sequences of at most n elements of S
SeqsUpTo(S, n) == UNION {[1..k -> S] : k \in 0..n}

\* texts at the end of what a timedelta holds
EdgeStrs ==
  {<<"9", "9", "9", "9", "9", "9", "9", "9", "9", "d">>,
   <<"9", "9", "9", "9", "9", "9", "9", "9", "9", "d", "2", "4", "h">>}

\* the texts that are parsed
ParseTexts ==
  {Concat(pieces) : pieces \in SeqsUpTo(Tokens \cup Fillers, MaxPieces)}
    \cup LongStrs \cup EdgeStrs

\* some call of parse_time has been made
InitParse ==
  /\ list = <<>>
  /\ now = 0
  /\ nextId = 1
  /\ fg = FgInput
  /\ mon = MonIdle
  /\ notified = [id \in Ids |-> 0]
  /\ alerted = {}
  /\ removed = {}
  /\ \E time_str \in ParseTexts : call = Pending("parse_time", time_str)

\* parse_time returns the timedelta, or raises what timedelta() raises
CallParseTime ==
  /\ IsPending("parse_time")
  /\ LET delta == parse_time(call.args[1])
     IN call' = IF delta.raised # "none"
                  THEN [call EXCEPT !.raised = delta.raised]
                  ELSE [call EXCEPT !.ret = <<delta>>]
  /\ UNCHANGED <<list, now, nextId, fg, mon, notified, alerted, removed>>

NextParse == CallParseTime

SpecParse == InitParse /\ [][NextParse]_vars

\* some call of convert_timedelta has been made
InitFormat ==
  /\ list = <<>>
  /\ now = 0
  /\ nextId = 1
  /\ fg = FgInput
  /\ mon = MonIdle
  /\ notified = [id \in Ids |-> 0]
  /\ alerted = {}
  /\ removed = {}
  /\ \E delta \in Deltas : call = Pending("convert_timedelta", delta)

\* convert_timedelta returns readable_time
CallConvertTimedelta ==
  /\ IsPending("convert_timedelta")
  /\ call' = [call EXCEPT !.ret = <<convert_timedelta(call.args[1])>>]
  /\ UNCHANGED <<list, now, nextId, fg, mon, notified, alerted, removed>>

NextFormat == CallConvertTimedelta

SpecFormat == InitFormat /\ [][NextFormat]_vars

\* the alert thread is scheduled again and again for as long as it can run
FairSpec == Spec /\ WF_vars(Monitor)

(* ------------------------------ properties ----------------------------- *)
\* the record with this id is in the dict and its deadline has passed
Due(id) == \E k \in Live(list) : list[k].id = id /\ list[k].deadline <= now

\* the alert thread has raised the alert for this record and is about to
\* remove it
Removing(id) == mon.pc \in {"remove_in", "remove_pop"} /\ id \in mon.ids

C1_State ==
  /\ \A id \in Ids : notified[id] <= 1
  /\ \A id \in alerted : id \in IdsIn(list) => Removing(id)

C1_Step ==
  Len(mon'.due_ids) > Len(mon.due_ids) =>
    mon'.due_ids[Len(mon'.due_ids)] \notin alerted

\* C1: the notification sink is called at most once for a task record; a
\* record the alert thread has alerted on leaves the dict with the removal
\* that follows the alert, stays out, and no later due-task check returns it.
C1_AlertedAtMostOnce == []C1_State /\ [][C1_Step]_vars

\* a record was alerted on once and removed, and a later due-task check is
\* running over a dict that holds another task
C1_Witness ==
  \E id \in alerted :
    /\ notified[id] = 1
    /\ id \notin IdsIn(list)
    /\ mon.pc = "scan"
    /\ Used(list) > 0

\* C2: with the alert thread scheduled fairly and the process alive, every
\* record whose deadline has passed eventually is no longer a due record of
\* the dict: it was alerted on and removed (or removed or snoozed by the
\* user).
C2_DueEventuallyAlerted ==
  \A id \in Ids : Due(id) ~> (~Due(id) \/ ~Running)

\* C3: a due name that a foreground remove deleted before the alert thread
\* reads it (or removes it) raises no error in the alert thread.
C3_DisappearanceHandled ==
  mon.pc = "dead" => mon.raised \notin {"ValueError", "KeyError"}

\* C4: a notification sink that raises does not end the alert thread.
C4_SinkFailureSurvived ==
  mon.raised = "NotifyError" => mon.pc # "dead"

\* C5: the task whose notification failed is removed from the dict in that
\* same tick.
C5_RemovedAfterSinkFailure ==
  mon.raised = "NotifyError" => mon.ids \cap IdsIn(list) = {}

\* C6: interleaved foreground calls and alert-thread scans never make an
\* operation on the dict fail with anything but task-not-found.
C6_OnlyNotFoundErrors ==
  /\ mon.raised \in {"none", "ValueError", "NotifyError"}
  /\ fg.raised \in {"none", "ValueError"}

\* main() is between the presence test and the update of remove or snooze
FgInMethod == fg.pc \in {"remove_pop", "snooze_get", "snooze_set"}

\* the alert thread is inside check_due_tasks or between the presence test
\* and the access of a getter or of remove
MonInMethod ==
  mon.pc \in {"scan", "description_get", "start_get", "deadline_get",
              "remove_pop"}

\* C7: the two threads are never both part-way through an operation on the
\* dict.
C7_MutualExclusion == ~(FgInMethod /\ MonInMethod)

\* C8: a record that a foreground remove has deleted is not notified on
\* afterwards.
C8_NoNotifyAfterRemove ==
  [][alerted' # alerted => mon.ids \cap removed = {}]_vars

NameOps == {"remove", "snooze", "get_task", "get_description",
            "get_deadline", "get_start", "time_left"}

\* C9: remove, snooze, get_task, get_description, get_deadline, get_start
\* and time_left called with a name that is not in the dict raise the
\* task-not-found error and leave the dict as it was.
C9_AbsentNameRaises ==
  [][(now' = now /\ call'.op \in NameOps /\ ~Has(list, call'.name)) =>
       (call'.raised = "ValueError" /\ list' = list)]_vars

\* time_left of an absent name has raised while the dict holds a task
C9_Witness ==
  /\ call.op = "time_left"
  /\ call.raised = "ValueError"
  /\ ~Has(list, call.name)
  /\ Used(list) > 0

\* C10: a foreground remove or snooze of an absent name does not end the
\* process.
C10_NotFoundNotFatal == fg.raised = "ValueError" => Running

\* C11: a snooze of a task in the dict that returns has set the deadline of
\* that task to its deadline before plus the parsed duration, and has left
\* its start, its description and every other task as they were.
C11_SnoozeFromDeadline ==
  [][(now' = now /\ call'.op = "snooze" /\ call'.raised = "none"
        /\ Has(list, call'.name)) =>
       list' = [k \in 1..Len(list) |->
                  IF k \in Live(list) /\ list[k].name = call'.name
                    THEN Task(list[k].name, list[k].id, list[k].description,
                              list[k].start,
                              list[k].deadline
                                + total_seconds(parse_time(call'.args[1])))
                    ELSE list[k]]]_vars

\* a task was snoozed by a second to a deadline that is not a second from
\* now, next to another task
C11_Witness ==
  /\ call.op = "snooze"
  /\ call.raised = "none"
  /\ call.args = << <<"1", "s">> >>
  /\ Has(list, call.name)
  /\ GetItem(list, call.name).deadline # now + 1
  /\ GetItem(list, call.name).deadline # GetItem(list, call.name).start + 1
  /\ Used(list) = 2

\* C12: no task in the dict has a deadline before its start.
C12_DeadlineNotBeforeStart ==
  \A k \in Live(list) : list[k].deadline >= list[k].start

\* a task added after the clock has moved, with no time to run, next to a
\* task whose deadline was moved past its first value by a snooze
C12_Witness ==
  /\ \E k \in Live(list) : list[k].start > 0 /\ list[k].deadline = list[k].start
  /\ \E k \in Live(list) : list[k].deadline = list[k].start + 2

\* C18: the record the alert thread removes after an alert is the record it
\* alerted on, and it is due when it is removed.
C18_RemovesOnlyDue ==
  [][(mon.pc = "remove_pop" /\ mon'.pc # "remove_pop"
        /\ Has(list, mon.name)) =>
       /\ GetItem(list, mon.name).deadline <= now
       /\ GetItem(list, mon.name).id \in alerted]_vars

(* ------------------------- convert_timedelta --------------------------- *)
\* a call of convert_timedelta has returned
Formatted == call.op = "convert_timedelta" /\ call.ret # <<>>

\* the whole seconds of the duration that was formatted
FormattedSecs == total_seconds(call.args[1])

\* the amounts of each unit in n seconds, each taken from n itself
RefComponents(n) ==
  [days |-> n \div 86400, hours |-> (n \div 3600) % 24,
   minutes |-> (n \div 60) % 60, seconds |-> n % 60]

\* the phrase of one amount: the unit in the plural unless the amount is one
RefPart(n, unit) ==
  IF n = 1 THEN "1 " \o unit ELSE ToString(n) \o " " \o unit \o "s"

\* the phrases of the amounts that are not zero, largest unit first
RefParts(c) ==
  LET all == <<RefPart(c.days, "day"), RefPart(c.hours, "hour"),
               RefPart(c.minutes, "minute"), RefPart(c.seconds, "second")>>
      amount == <<c.days, c.hours, c.minutes, c.seconds>>
      keep == {k \in 1..4 : amount[k] # 0}
      nth(k) == CHOOSE j \in keep : Cardinality({x \in keep : x < j}) = k - 1
  IN [k \in 1..Cardinality(keep) |-> all[nth(k)]]

\* the phrase of a list of parts: ", " between them, ", and " before the last
RefPhrase(parts) ==
  CASE Len(parts) = 0 -> "0 seconds"
    [] Len(parts) = 1 -> parts[1]
    [] Len(parts) = 2 -> parts[1] \o ", and " \o parts[2]
    [] Len(parts) = 3 -> parts[1] \o ", " \o parts[2] \o ", and " \o parts[3]
    [] Len(parts) = 4 -> parts[1] \o ", " \o parts[2] \o ", " \o parts[3]
                           \o ", and " \o parts[4]

\* C16: convert_timedelta renders, of a duration of zero or more seconds,
\* only the days, hours, minutes and seconds that are not zero, each in the
\* plural when greater than 1; two or more are joined by ", " with ", and "
\* before the last (90 seconds is "1 minute, and 30 seconds"), one stands
\* alone, and a duration of zero is "0 seconds".
C16_Rendering ==
  (Formatted /\ FormattedSecs >= 0) =>
    /\ call.ret = <<RefPhrase(RefParts(RefComponents(FormattedSecs)))>>
    /\ FormattedSecs = 90 => call.ret = <<"1 minute, and 30 seconds">>
    /\ FormattedSecs = 0 => call.ret = <<"0 seconds">>
    /\ FormattedSecs = 2 * 3600 => call.ret = <<"2 hours">>

C16_Witness ==
  /\ Formatted
  /\ FormattedSecs = 2 * 86400 + 3600 + 2 * 60 + 1
  /\ call.ret = <<"2 days, 1 hour, 2 minutes, and 1 second">>

\* C17 as stated: a duration with exactly two amounts that are not zero is
\* rendered "a and b", so that 1 day and 1 second is "1 day and 1 second".
C17_TwoJoinedByAnd ==
  (Formatted /\ FormattedSecs >= 0
     /\ Len(RefParts(RefComponents(FormattedSecs))) = 2) =>
    LET parts == RefParts(RefComponents(FormattedSecs))
    IN /\ call.ret = <<parts[1] \o " and " \o parts[2]>>
       /\ FormattedSecs = 86401 => call.ret = <<"1 day and 1 second">>

\* C17 amended: a duration with exactly two amounts that are not zero is
\* rendered "a, and b", with the comma, so that 1 day and 1 second is
\* "1 day, and 1 second".
C17_TwoJoinedByCommaAnd ==
  (Formatted /\ FormattedSecs >= 0
     /\ Len(RefParts(RefComponents(FormattedSecs))) = 2) =>
    LET parts == RefParts(RefComponents(FormattedSecs))
    IN /\ call.ret = <<parts[1] \o ", and " \o parts[2]>>
       /\ FormattedSecs = 86401 => call.ret = <<"1 day, and 1 second">>

C17_Witness ==
  /\ Formatted
  /\ FormattedSecs = 86401
  /\ call.ret = <<"1 day, and 1 second">>

\* C20: for a duration of zero or more whole seconds the days, hours,
\* minutes and seconds that convert_timedelta renders add up to the
\* duration: days * 86400 + hours * 3600 + minutes * 60 + seconds, with
\* hours below 24 and minutes and seconds below 60, none negative.
C20_Decomposition ==
  (Formatted /\ FormattedSecs >= 0) =>
    LET c == Decompose(FormattedSecs)
    IN /\ c.days * 86400 + c.hours * 3600 + c.minutes * 60 + c.seconds
            = FormattedSecs
       /\ c.days >= 0
       /\ c.hours \in 0..23
       /\ c.minutes \in 0..59
       /\ c.seconds \in 0..59
       /\ call.ret = <<Combine(Parts(c))>>

C20_Witness ==
  /\ Formatted
  /\ FormattedSecs = 86400 + 23 * 3600 + 59 * 60 + 59
  /\ Decompose(FormattedSecs)
       = [days |-> 1, hours |-> 23, minutes |-> 59, seconds |-> 59]
  /\ call.ret = <<"1 day, 23 hours, 59 minutes, and 59 seconds">>


(* ------------------------------- print --------------------------------- *)
\* the slot of the task that entry e of the listing is about
Listed(l, e) == {k \in Live(l) : capitalize(l[k].name) = e.name}

\* C13: TodoList.print writes every task of the dict exactly once, with its
\* description, start and deadline, in order of ascending deadline, and
\* leaves the dict as it was.
C13_ListingSorted ==
  [][(now' = now /\ call'.op = "print") =>
       LET out == call'.ret[1].tasks
       IN /\ list' = list
          /\ call'.raised = "none"
          /\ call'.ret[1].empty = (Live(list) = {})
          /\ Len(out) = Cardinality(Live(list))
          /\ \A k \in Live(list) :
               \E i \in 1..Len(out) :
                 /\ Listed(list, out[i]) = {k}
                 /\ out[i].description = list[k].description
                 /\ out[i].start = format_time(list[k].start)
                 /\ out[i].deadline = format_time(list[k].deadline)
                 /\ \A j \in 1..Len(out) : Listed(list, out[j]) = {k} => j = i
          /\ \A i, j \in 1..Len(out) :
               i < j => \A ki \in Listed(list, out[i]),
                           kj \in Listed(list, out[j]) :
                          list[ki].deadline <= list[kj].deadline]_vars

\* two tasks have been listed, the one added last first
C13_Witness ==
  /\ call.op = "print"
  /\ Cardinality(Live(list)) = 2
  /\ \E k1, k2 \in Live(list) :
       /\ k1 < k2
       /\ list[k2].deadline < list[k1].deadline
       /\ call.ret[1].tasks[1].name = capitalize(list[k2].name)
       /\ call.ret[1].tasks[2].name = capitalize(list[k1].name)

(* ----------------------------- parse_time ------------------------------ *)
\* a call of parse_time has come back, with a value or an error
Parsed == call.op = "parse_time" /\ (call.ret # <<>> \/ call.raised # "none")

RECURSIVE Pow10(_)
Pow10(n) == IF n = 0 THEN 1 ELSE 10 * Pow10(n - 1)

\* the amount of the last <digits>u token of text s, 0 if it has none: the
\* digits are the longest run of digits that ends just before that u
RefAmount(s, u) ==
  LET ends == {j \in 2..Len(s) : s[j] = u /\ s[j - 1] \in DigitChars}
  IN IF ends = {} THEN 0
     ELSE LET j == CHOOSE e \in ends : \A f \in ends : f <= e
              first == CHOOSE i \in 1..(j - 1) :
                         /\ \A k \in i..(j - 1) : s[k] \in DigitChars
                         /\ i > 1 => s[i - 1] \notin DigitChars
              RECURSIVE Sum(_)
              Sum(k) == IF k >= j THEN 0
                        ELSE DigitVal(s[k]) * Pow10(j - 1 - k) + Sum(k + 1)
          IN Sum(first)

\* the duration of the reference: the amounts of the four units added up
RefDuration(s) ==
  LET secs == RefAmount(s, "h") * 3600 + RefAmount(s, "m") * 60
                + RefAmount(s, "s")
  IN [raised |-> "none", days |-> RefAmount(s, "d") + secs \div 86400,
      seconds |-> secs % 86400]

\* C14: parse_time never raises, and its result has for each unit the
\* amount of the last <digits><unit> token of the text, zero when there is
\* none ("1h1h" is one hour, a text without tokens the zero duration).
C14_TotalAndReference ==
  Parsed =>
    /\ call.raised = "none"
    /\ call.ret = <<RefDuration(call.args[1])>>

\* the tokens of toks in this order, a blank between them or nothing
Arrange(toks, blank) ==
  Concat([k \in 1..(2 * Len(toks) - 1) |->
            IF k % 2 = 1 THEN toks[(k + 1) \div 2] ELSE blank])

UnitOf(tok) == tok[Len(tok)]

\* the sequences of tokens of pairwise distinct units
DistinctUnits ==
  {toks \in SeqsUpTo(Tokens, MaxPieces) :
     /\ toks # <<>>
     /\ \A i, j \in 1..Len(toks) : i # j => UnitOf(toks[i]) # UnitOf(toks[j])}

\* C15: a text made of <digits><unit> tokens of pairwise distinct units,
\* with or without blanks between them, parses to the same duration as the
\* same tokens in any other order ("30m2h" is 2 h 30 min, as "2h30m" is).
C15_OrderIndependent ==
  Parsed =>
    /\ \A toks \in DistinctUnits, blank \in {<<>>, <<" ">>} :
         call.args[1] = Arrange(toks, blank) =>
           \A other \in DistinctUnits, sep \in {<<>>, <<" ">>} :
             {other[k] : k \in 1..Len(other)}
                 = {toks[k] : k \in 1..Len(toks)}
               => /\ parse_time(Arrange(other, sep)).raised = call.raised
                  /\ call.ret \in {<<>>, <<parse_time(Arrange(other, sep))>>}
    /\ call.args[1] = <<"3", "0", "m", "2", "h">> =>
         call.ret = <<[raised |-> "none", days |-> 0, seconds |-> 9000]>>

\* three tokens have been parsed that are not in the order d, h, m, s
C15_Witness ==
  /\ Parsed
  /\ call.args[1] = <<"3", "0", "m", "1", "d", "2", "h">>
  /\ call.ret = <<[raised |-> "none", days |-> 1, seconds |-> 9000]>>

(* -------------------------------- add ---------------------------------- *)
\* C19: add always returns normally; afterwards the dict holds exactly one
\* task under the name, with the new description, start = now and
\* deadline = now + parse_time(text), whether or not the name was there
\* before, and every other task is as it was.
C19_AddAlwaysSucceeds ==
  [][(now' = now /\ call'.op = "add") =>
       /\ call'.raised = "none"
       /\ Cardinality({k \in Live(list') : list'[k].name = call'.name}) = 1
       /\ LET task == GetItem(list', call'.name)
          IN /\ task.description = call'.args[1]
             /\ task.start = now
             /\ task.deadline
                  = now + total_seconds(parse_time(call'.args[2]))
       /\ \A other \in Names \ {call'.name} :
            /\ Has(list', other) = Has(list, other)
            /\ Has(list, other) => GetItem(list', other) = GetItem(list, other)]_vars

====
